---------------------------- MODULE Spec2Model ----------------------------
(***************************************************************************)
(* A model of the in-app-purchase plugin's adapters:                       *)
(*   - the Windows Store adapter (src/src/windows.rs): the cached store    *)
(*     context, the seven operations and the unit/state conversions;       *)
(*   - the macOS StoreKit bridge adapter (src/src/macos.rs): the code      *)
(*     signature gate in front of every native call.                       *)
(* 64-bit integers and IEEE-754 doubles of the program do not fit TLC's    *)
(* 32-bit integers, so they are carried as arbitrary-precision naturals:   *)
(* little-endian sequences of base-10^4 limbs without leading zero limbs.  *)
(***************************************************************************)
EXTENDS Integers, Sequences, FiniteSets, TLC

VARIABLES
    store_context,   \* windows.rs: Iap.store_context, None or Some(handle id)
    constructed,     \* number of successful StoreContext::GetDefault() calls
    now,             \* the system clock, milliseconds (SystemTime::now())
    last,            \* the response in flight to the host: the call and its result
    issued,          \* purchase tokens returned by the successful purchase calls
    pc,              \* per thread: position inside get_store_context
    lock,            \* per thread: how it holds the RwLock ("none"|"read"|"write")
    is_none,         \* per thread: what its context_guard.is_none() read
    after_creation,  \* per thread: the handle was cached when its call began
    ret,             \* per thread: what its get_store_context calls returned
    formatted_base_price, \* the native price string handed to the converter
    price_amount_micros,  \* the converter's output, None before it ran
    sig,             \* macOS: the OSStatus pair the Security framework returns now
    mac_last,        \* macOS: the last operation, what it invoked and returned
    validated_before, \* macOS: some earlier call passed the signature check
    billing_period,      \* info.BillingPeriod(), a u32
    billing_period_unit, \* info.BillingPeriodUnit().0, an i32
    billing_period_str,  \* the encoded period, None before the encoding ran
    windows_ticks,   \* datetime.UniversalTime, 100 ns ticks since 1601-01-01
    unix_millis,     \* what datetime_to_unix_millis returned, None before it ran
    wire,            \* serde: the value a (de)serializer carries
    serialized_from, \* serde: the PurchaseStateValue wire was serialized from
    decoded,         \* serde: what deserializing wire gave, None before
    active,          \* lib.rs: the adapter app.manage() holds, None before setup
    cmd_last         \* commands.rs: the last command, what it called and returned

winVars   == <<store_context, constructed, now, last, issued>>
concVars  == <<pc, lock, is_none, after_creation, ret>>
priceVars == <<formatted_base_price, price_amount_micros>>
macVars   == <<sig, mac_last, validated_before>>
billingVars == <<billing_period, billing_period_unit, billing_period_str>>
timeVars  == <<windows_ticks, unix_millis>>
serdeVars == <<wire, serialized_from, decoded>>
convVars  == <<billingVars, timeVars, serdeVars>>
cmdVars   == <<active, cmd_last>>
vars      == <<winVars, concVars, priceVars, macVars, convVars, cmdVars>>

\* Option<T>: None is the empty sequence, Some(x) the sequence of x alone
None    == <<>>
Some(x) == <<x>>

-----------------------------------------------------------------------------
(* Arbitrary-precision naturals.                                           *)

Base == 10 * 1000

RECURSIVE NatNorm(_)
NatNorm(a) ==
    IF a = <<>> THEN <<>>
    ELSE IF a[Len(a)] = 0 THEN NatNorm(SubSeq(a, 1, Len(a) - 1))
    ELSE a

RECURSIVE NatFromInt(_)
NatFromInt(n) ==
    IF n = 0 THEN <<>> ELSE <<n % Base>> \o NatFromInt(n \div Base)

RECURSIVE NatToInt(_)
NatToInt(a) ==
    IF a = <<>> THEN 0 ELSE Head(a) + Base * NatToInt(Tail(a))

\* a < b: -1, a = b: 0, a > b: 1 (both normalised)
RECURSIVE NatCmpFrom(_, _, _)
NatCmpFrom(a, b, i) ==
    IF i = 0 THEN 0
    ELSE IF a[i] < b[i] THEN -1
    ELSE IF a[i] > b[i] THEN 1
    ELSE NatCmpFrom(a, b, i - 1)

NatCmp(a, b) ==
    IF Len(a) < Len(b) THEN -1
    ELSE IF Len(a) > Len(b) THEN 1
    ELSE NatCmpFrom(a, b, Len(a))

RECURSIVE NatAddCarry(_, _, _)
NatAddCarry(a, b, carry) ==
    IF a = <<>> /\ b = <<>> THEN (IF carry = 0 THEN <<>> ELSE <<carry>>)
    ELSE LET x == IF a = <<>> THEN 0 ELSE Head(a)
             y == IF b = <<>> THEN 0 ELSE Head(b)
             v == x + y + carry
         IN  <<v % Base>> \o NatAddCarry(IF a = <<>> THEN <<>> ELSE Tail(a),
                                         IF b = <<>> THEN <<>> ELSE Tail(b),
                                         v \div Base)

NatAdd(a, b) == NatAddCarry(a, b, 0)

\* a - b for a >= b
RECURSIVE NatSubBorrow(_, _, _)
NatSubBorrow(a, b, borrow) ==
    IF a = <<>> THEN <<>>
    ELSE LET y == IF b = <<>> THEN 0 ELSE Head(b)
             v == Head(a) - y - borrow
         IN  <<IF v < 0 THEN v + Base ELSE v>>
             \o NatSubBorrow(Tail(a), IF b = <<>> THEN <<>> ELSE Tail(b),
                             IF v < 0 THEN 1 ELSE 0)

NatSub(a, b) == NatNorm(NatSubBorrow(a, b, 0))

\* a * c for a small c (c <= 2 * 10^5 keeps every intermediate below 2^31)
RECURSIVE NatMulCarry(_, _, _)
NatMulCarry(a, c, carry) ==
    IF a = <<>> THEN (IF carry = 0 THEN <<>>
                      ELSE <<carry % Base>> \o NatMulCarry(<<>>, c, carry \div Base))
    ELSE LET v == Head(a) * c + carry
         IN  <<v % Base>> \o NatMulCarry(Tail(a), c, v \div Base)

NatMulSmall(a, c) == NatNorm(NatMulCarry(a, c, 0))

\* quotient and remainder of a by a small d, most significant limb first
RECURSIVE NatDivFrom(_, _, _, _)
NatDivFrom(a, d, i, rem) ==
    IF i = 0 THEN [q |-> <<>>, r |-> rem]
    ELSE LET v    == rem * Base + a[i]
             rest == NatDivFrom(a, d, i - 1, v % d)
         IN  [q |-> Append(rest.q, v \div d), r |-> rest.r]

NatDivSmall(a, d) ==
    LET res == NatDivFrom(a, d, Len(a), 0)
    IN  [q |-> NatNorm(res.q), r |-> res.r]

RECURSIVE NatMulPow2(_, _)
NatMulPow2(a, n) ==
    IF n >= 13 THEN NatMulPow2(NatMulSmall(a, 8192), n - 13)
    ELSE NatMulSmall(a, 2 ^ n)

RECURSIVE NatMulPow10(_, _)
NatMulPow10(a, n) ==
    IF n >= 4 THEN NatMulPow10(NatMulSmall(a, 10000), n - 4)
    ELSE NatMulSmall(a, 10 ^ n)

\* floor(a / 10^n) and whether anything nonzero was cut off
RECURSIVE NatDivPow10(_, _, _)
NatDivPow10(a, n, cut) ==
    IF n = 0 THEN [q |-> a, cut |-> cut]
    ELSE LET step == NatDivSmall(a, 10)
         IN  NatDivPow10(step.q, n - 1, cut \/ step.r # 0)

\* floor(a / 2^n) and whether anything nonzero was cut off
RECURSIVE NatDivPow2(_, _, _)
NatDivPow2(a, n, cut) ==
    IF n = 0 THEN [q |-> a, cut |-> cut]
    ELSE LET k    == IF n >= 13 THEN 13 ELSE n
             step == NatDivSmall(a, 2 ^ k)
         IN  NatDivPow2(step.q, n - k, cut \/ step.r # 0)

NatPow2(n) == NatMulPow2(<<1>>, n)

-----------------------------------------------------------------------------
(* IEEE-754 binary64 values m * 2^e with 0 <= m <= 2^53, as Rust's f64     *)
(* arithmetic produces them for the non-negative finite values of the      *)
(* price conversion (round to nearest, ties to even).                      *)

TwoTo53 == NatPow2(53)
TwoTo66 == NatPow2(66)
I64Max  == NatSub(NatPow2(63), <<1>>)

NatIsOdd(a) == a # <<>> /\ a[1] % 2 = 1

\* Drop low bits of a until it fits 53 bits; rb is the last bit dropped and
\* st tells whether anything nonzero was dropped before it.
RECURSIVE F64Shift(_, _, _, _)
F64Shift(a, e, rb, st) ==
    IF NatCmp(a, TwoTo53) < 0
    THEN [m |-> IF rb = 1 /\ (st \/ NatIsOdd(a)) THEN NatAdd(a, <<1>>) ELSE a,
          e |-> e]
    ELSE IF NatCmp(a, TwoTo66) >= 0
    THEN LET step == NatDivSmall(a, 8192)
         IN  F64Shift(step.q, e + 13, 0, st \/ rb = 1 \/ step.r # 0)
    ELSE LET step == NatDivSmall(a, 2)
         IN  F64Shift(step.q, e + 1, step.r, st \/ rb = 1)

\* The double nearest to (a + fraction) * 2^e, the fraction nonzero iff cut;
\* with cut, a must have at least 54 bits.
F64Round(a, e, cut) == F64Shift(a, e, 0, cut)

F64Zero == [m |-> <<>>, e |-> 0]

\* x * 1_000_000.0: the exact product (10^6 is a double), rounded once
F64MulMillion(x) == F64Round(NatMulSmall(NatMulSmall(x.m, 1000), 1000), x.e, FALSE)

\* Rust's `x as i64` for x >= 0: truncation toward zero, saturating
F64AsI64(x) ==
    IF x.e >= 0
    THEN LET v == NatMulPow2(x.m, x.e)
         IN  IF NatCmp(v, I64Max) > 0 THEN I64Max ELSE v
    ELSE NatDivPow2(x.m, -x.e, FALSE).q

-----------------------------------------------------------------------------
(* Price parsing, windows.rs convert_store_product_to_product.  A string   *)
(* is a sequence of characters; "U+00BD" stands for the character 1/2,     *)
(* which char::is_numeric accepts and the f64 parser does not.             *)

AsciiDigits  == {"0", "1", "2", "3", "4", "5", "6", "7", "8", "9"}
OtherNumeric == {"U+00BD"}

is_numeric(c) == c \in AsciiDigits \cup OtherNumeric

DigitVal(c) == CHOOSE d \in 0..9 : ToString(d) = c

\* .chars().filter(|c| c.is_numeric() || *c == '.').collect::<String>()
strip_non_numeric(s) == SelectSeq(s, LAMBDA c : is_numeric(c) \/ c = ".")

CountOf(t, c) == Cardinality({i \in 1..Len(t) : t[i] = c})

\* str::parse::<f64>() succeeds on a sequence of digits and dots iff it is
\* digits with at most one dot and at least one digit
ParsesAsF64(t) ==
    /\ \A i \in 1..Len(t) : t[i] \in AsciiDigits \cup {"."}
    /\ CountOf(t, ".") <= 1
    /\ \E i \in 1..Len(t) : t[i] \in AsciiDigits

\* the digits of t as a natural, the dot skipped
RECURSIVE DigitsNat(_, _)
DigitsNat(t, acc) ==
    IF t = <<>> THEN acc
    ELSE IF Head(t) = "." THEN DigitsNat(Tail(t), acc)
    ELSE DigitsNat(Tail(t), NatAdd(NatMulSmall(acc, 10), NatFromInt(DigitVal(Head(t)))))

\* the number of digits after the dot
FracDigits(t) ==
    IF CountOf(t, ".") = 0 THEN 0
    ELSE Len(t) - (CHOOSE i \in 1..Len(t) : t[i] = ".")

\* the decimal t = n / 10^k, correctly rounded to a double
parse_f64(t) ==
    LET n == DigitsNat(t, <<>>)
        k == FracDigits(t)
        s == 54 + 4 * k
        d == NatDivPow10(NatMulPow2(n, s), k, FALSE)
    IN  IF n = <<>> THEN F64Zero
        ELSE IF k = 0 THEN F64Round(n, 0, FALSE)
        ELSE F64Round(d.q, -s, d.cut)

\* .parse::<f64>().unwrap_or(0.0)
price_value(s) ==
    LET t == strip_non_numeric(s)
    IN  IF ParsesAsF64(t) THEN parse_f64(t) ELSE F64Zero

\* (price_value * 1_000_000.0) as i64
MicrosOfPriceString(s) == F64AsI64(F64MulMillion(price_value(s)))

-----------------------------------------------------------------------------
(* Signed 64-bit integers [neg, mag]; no operation of the model leaves the *)
(* i64 range, so none wraps.                                                *)

I64(n) == [neg |-> FALSE, mag |-> NatFromInt(n)]

I64Norm(neg, mag) == [neg |-> neg /\ mag # <<>>, mag |-> mag]

I64Sub(a, b) ==
    IF a.neg # b.neg THEN I64Norm(a.neg, NatAdd(a.mag, b.mag))
    ELSE IF NatCmp(a.mag, b.mag) >= 0 THEN I64Norm(a.neg, NatSub(a.mag, b.mag))
    ELSE I64Norm(~a.neg, NatSub(b.mag, a.mag))

I64Positive(a) == ~a.neg /\ a.mag # <<>>

\* decimal digits of a limb, padded to the limb's width
Pad4(d) ==
    IF d < 10 THEN "000" \o ToString(d)
    ELSE IF d < 100 THEN "00" \o ToString(d)
    ELSE IF d < 1000 THEN "0" \o ToString(d)
    ELSE ToString(d)

RECURSIVE NatLowLimbs(_, _)
NatLowLimbs(a, i) ==
    IF i = 0 THEN "" ELSE Pad4(a[i]) \o NatLowLimbs(a, i - 1)

\* format!("{}", n)
I64ToString(a) ==
    IF a.mag = <<>> THEN "0"
    ELSE (IF a.neg THEN "-" ELSE "")
         \o ToString(a.mag[Len(a.mag)]) \o NatLowLimbs(a.mag, Len(a.mag) - 1)

BoolToString(b) == IF b THEN "true" ELSE "false"

-----------------------------------------------------------------------------
(* windows.rs: time conversion.                                            *)

\* const SEC_TO_UNIX_EPOCH: i64 = 11644473600
SEC_TO_UNIX_EPOCH == [neg |-> FALSE, mag |-> <<3600, 4447, 116>>]

\* a mutant of ThirtyDaysMillis: thirty days counted in seconds
ThirtyDaysSeconds == [neg |-> FALSE, mag |-> NatFromInt(30 * 24 * 60 * 60)]

\* 30 * 24 * 60 * 60 * 1000 = 2592000000
ThirtyDaysMillis == [neg |-> FALSE, mag |-> NatMulSmall(NatFromInt(30 * 24 * 60 * 60), 1000)]

\* a mutant of datetime_to_unix_millis: the ticks rescaled before the epoch
\* offset, which is in seconds, is taken off
datetime_to_unix_millis_rescaled_first(ticks) ==
    LET millis_since_1601 == I64Norm(ticks.neg, NatDivPow10(ticks.mag, 4, FALSE).q)
    IN  I64Sub(millis_since_1601, SEC_TO_UNIX_EPOCH)

\* windows_ticks / WINDOWS_TICK (10^7), then - SEC_TO_UNIX_EPOCH, then * 1000
datetime_to_unix_millis(ticks) ==
    LET seconds_since_1601 == I64Norm(ticks.neg, NatDivPow10(ticks.mag, 7, FALSE).q)
        unix_seconds       == I64Sub(seconds_since_1601, SEC_TO_UNIX_EPOCH)
    IN  I64Norm(unix_seconds.neg, NatMulSmall(unix_seconds.mag, 1000))

-----------------------------------------------------------------------------
(* The native Windows Store, as the adapter sees it.  Every answer of the  *)
(* store is an input of the call that asks for it.                         *)

MaxClock     == 1
MaxPurchases == 2

ProductIds   == {"gem", "gem_1"}
ProductTypes == {"inapp", "subs", "any"}
PackageName  == "app"

\* DateTime.UniversalTime values: the zero DateTime, 2001-01-01T00:00:00Z
ExpirationTicks ==
    { [neg |-> FALSE, mag |-> <<>>],
      [neg |-> FALSE, mag |-> <<0, 0, 8080, 6227, 12>>] }

\* A StoreLicense; ~readable: one of its property getters fails
NativeLicenses ==
    { [key |-> k, InAppOfferToken |-> k, SkuStoreId |-> k \o "/0010",
       IsActive |-> a, ExpirationDate |-> x, readable |-> TRUE]
        : k \in ProductIds, a \in BOOLEAN, x \in ExpirationTicks }
    \cup
    { [key |-> k, InAppOfferToken |-> k, SkuStoreId |-> k \o "/0010",
       IsActive |-> FALSE, ExpirationDate |-> [neg |-> FALSE, mag |-> <<>>],
       readable |-> FALSE] : k \in ProductIds }

\* AddOnLicenses in the order its iterator yields them: no key twice
AddOnLicenseMaps ==
    { <<>> } \cup { <<l>> : l \in NativeLicenses }
    \cup { m \in { <<l1, l2>> : l1 \in NativeLicenses, l2 \in NativeLicenses }
             : m[1].key # m[2].key }

\* StorePurchaseStatus and its integer codes
PurchaseStatuses ==
    {"Succeeded", "AlreadyPurchased", "NotPurchased", "NetworkError", "ServerError", "Other"}

StatusCode(st) ==
    CASE st = "Succeeded"        -> 0
      [] st = "AlreadyPurchased" -> 1
      [] st = "NotPurchased"     -> 2
      [] st = "NetworkError"     -> 3
      [] st = "ServerError"      -> 4
      [] OTHER                   -> 5

\* models.rs: PurchaseStateValue as i32
Purchased == 0
Canceled  == 1
Pending   == 2

-----------------------------------------------------------------------------
(* windows.rs: the operations, as functions of the adapter's state, the    *)
(* request and the store's answers.  Each returns the new cached handle,   *)
(* the new construction count and the crate::Result.                       *)

Ok(v)  == [ok |-> TRUE, value |-> v]
Err(m) == [ok |-> FALSE, error |-> m]

\* get_store_context: gd is what StoreContext::GetDefault() answers, asked
\* only when nothing is cached
\* a mutant of needs_construction: the is_none test dropped
needs_construction_always(cache) == TRUE

\* if context_guard.is_none()
needs_construction(cache) == cache = None

get_store_context(cache, n, gd) ==
    IF needs_construction(cache)
    THEN IF gd = "ok"
         THEN [ok |-> TRUE, cache |-> Some(n + 1), constructed |-> n + 1,
               handle |-> n + 1]
         ELSE [ok |-> FALSE, cache |-> None, constructed |-> n,
               error |-> "Failed to get store context"]
    ELSE [ok |-> TRUE, cache |-> cache, constructed |-> n, handle |-> cache[1]]

Outcome(ctx, result) ==
    [store_context |-> ctx.cache, constructed |-> ctx.constructed, result |-> result]

initialize(cache, n, native) ==
    LET ctx == get_store_context(cache, n, native.gd)
    IN  IF ~ctx.ok THEN Outcome(ctx, Err(ctx.error))
        ELSE Outcome(ctx, Ok([success |-> TRUE]))

convert_license_to_purchase(license, product_type, clock) ==
    IF ~license.readable THEN Err("windows error")
    ELSE
    LET product_id        == license.InAppOfferToken
        sku_store_id      == license.SkuStoreId
        is_active         == license.IsActive
        expiration_millis == datetime_to_unix_millis(license.ExpirationDate)
        purchase_time     ==
            IF product_type = "subs" /\ I64Positive(expiration_millis)
            THEN I64Sub(expiration_millis, ThirtyDaysMillis)
            ELSE I64(clock)
        purchase_state    == IF is_active THEN Purchased ELSE Canceled
    IN  Ok([order_id         |-> Some(sku_store_id),
            package_name     |-> PackageName,
            product_id       |-> product_id,
            purchase_time    |-> purchase_time,
            purchase_token   |-> sku_store_id,
            purchase_state   |-> purchase_state,
            is_auto_renewing |-> (product_type = "subs" /\ is_active),
            is_acknowledged  |-> TRUE,
            original_json    |-> "{\"isActive\":" \o BoolToString(is_active)
                                 \o ",\"expirationDate\":"
                                 \o I64ToString(expiration_millis) \o "}",
            signature        |-> ""])

\* a mutant of is_restorable: the filter forgotten
is_restorable_always(purchase) == TRUE

\* if purchase.purchase_state == PurchaseStateValue::Purchased as i32
is_restorable(purchase) == purchase.purchase_state = Purchased

\* a mutant of RestoreLoop: the hint applied as a filter, a license that
\* expires taken for a subscription and left out under the hint "inapp"
RECURSIVE RestoreLoopOfType(_, _, _, _, _)
RestoreLoopOfType(licenses, i, product_type, clock, purchases) ==
    IF i > Len(licenses) THEN Ok([purchases |-> purchases])
    ELSE LET purchase == convert_license_to_purchase(licenses[i], product_type, clock)
         IN  IF ~purchase.ok THEN purchase
             ELSE RestoreLoopOfType(licenses, i + 1, product_type, clock,
                              IF /\ is_restorable(purchase.value)
                                 /\ ~(product_type = "inapp"
                                        /\ licenses[i].ExpirationDate.mag # <<>>)
                              THEN Append(purchases, purchase.value)
                              ELSE purchases)

\* the while loop of restore_purchases from the i-th license on
RECURSIVE RestoreLoop(_, _, _, _, _)
RestoreLoop(licenses, i, product_type, clock, purchases) ==
    IF i > Len(licenses) THEN Ok([purchases |-> purchases])
    ELSE LET purchase == convert_license_to_purchase(licenses[i], product_type, clock)
         IN  IF ~purchase.ok THEN purchase
             ELSE RestoreLoop(licenses, i + 1, product_type, clock,
                              IF is_restorable(purchase.value)
                              THEN Append(purchases, purchase.value)
                              ELSE purchases)

\* every answer the store can give for the app license: GetAppLicenseAsync
\* fails ("err"), AddOnLicenses() fails ("addons_err"), or the add-on licenses
LicenseAnswers ==
    { [kind |-> "err"], [kind |-> "addons_err"] }
    \cup { [kind |-> "ok", licenses |-> m] : m \in AddOnLicenseMaps }

\* a mutant of restore_purchases: refused until something has created the
\* store context
restore_purchases_initialized(cache, n, clock, product_type, native) ==
    LET ctx == get_store_context(cache, n, native.gd)
    IN  IF cache = None
        THEN [store_context |-> cache, constructed |-> n,
              result |-> Err("not initialized")]
        ELSE IF native.app_license.kind = "err"
        THEN Outcome(ctx, Err("Failed to get app license"))
        ELSE IF native.app_license.kind = "addons_err"
        THEN Outcome(ctx, Err("windows error"))
        ELSE Outcome(ctx, RestoreLoop(native.app_license.licenses, 1, product_type,
                                      clock, <<>>))

\* native.app_license: one of LicenseAnswers
restore_purchases(cache, n, clock, product_type, native) ==
    LET ctx == get_store_context(cache, n, native.gd)
    IN  IF ~ctx.ok THEN Outcome(ctx, Err(ctx.error))
        ELSE IF native.app_license.kind = "err"
        THEN Outcome(ctx, Err("Failed to get app license"))
        ELSE IF native.app_license.kind = "addons_err"
        THEN Outcome(ctx, Err("windows error"))
        ELSE Outcome(ctx, RestoreLoop(native.app_license.licenses, 1, product_type,
                                      clock, <<>>))

\* a mutant of acknowledge_purchase: the context acquired as the other
\* operations do
acknowledge_purchase_acquiring(cache, n, purchase_token) ==
    LET ctx == get_store_context(cache, n, "ok")
    IN  Outcome(ctx, Ok([success |-> TRUE]))

acknowledge_purchase(cache, n, purchase_token) ==
    [store_context |-> cache, constructed |-> n, result |-> Ok([success |-> TRUE])]

HasKey(licenses, key) == \E i \in 1..Len(licenses) : licenses[i].key = key
Lookup(licenses, key) == licenses[CHOOSE i \in 1..Len(licenses) : licenses[i].key = key]

\* a mutant of status_is_owned: owned as soon as a license exists
status_is_owned_by_license(is_active) == TRUE

\* is_owned: is_active
status_is_owned(is_active) == is_active

\* a mutant of no_license_status: defaults standing in for the unknown
no_license_status_defaults(product_id) ==
    [product_id       |-> product_id,
     is_owned         |-> FALSE,
     purchase_state   |-> Some(Canceled),
     purchase_time    |-> Some(I64(0)),
     expiration_time  |-> None,
     is_auto_renewing |-> Some(FALSE),
     is_acknowledged  |-> Some(FALSE),
     purchase_token   |-> None]

\* the ProductStatus of a product without a license
no_license_status(product_id) ==
    [product_id       |-> product_id,
     is_owned         |-> FALSE,
     purchase_state   |-> None,
     purchase_time    |-> None,
     expiration_time  |-> None,
     is_auto_renewing |-> None,
     is_acknowledged  |-> None,
     purchase_token   |-> None]

get_product_status(cache, n, product_id, product_type, native) ==
    LET ctx == get_store_context(cache, n, native.gd)
    IN  IF ~ctx.ok THEN Outcome(ctx, Err(ctx.error))
        ELSE IF native.app_license.kind = "err"
        THEN Outcome(ctx, Err("Failed to get app license"))
        ELSE IF native.app_license.kind = "addons_err"
        THEN Outcome(ctx, Err("windows error"))
        ELSE IF HasKey(native.app_license.licenses, product_id)
        THEN LET license == Lookup(native.app_license.licenses, product_id)
                 is_active       == license.IsActive
                 expiration_time == datetime_to_unix_millis(license.ExpirationDate)
                 purchase_time   ==
                     IF product_type = "subs" /\ I64Positive(expiration_time)
                     THEN I64Sub(expiration_time, ThirtyDaysMillis)
                     ELSE expiration_time
                 purchase_state  == IF is_active THEN Purchased ELSE Canceled
             IN  IF ~license.readable THEN Outcome(ctx, Err("windows error"))
                 ELSE Outcome(ctx, Ok(
                     [product_id       |-> product_id,
                      is_owned         |-> status_is_owned(is_active),
                      purchase_state   |-> Some(purchase_state),
                      purchase_time    |-> Some(purchase_time),
                      expiration_time  |-> IF I64Positive(expiration_time)
                                           THEN Some(expiration_time) ELSE None,
                      is_auto_renewing |-> Some(product_type = "subs" /\ is_active),
                      is_acknowledged  |-> Some(TRUE),
                      purchase_token   |-> Some(license.SkuStoreId)]))
        ELSE Outcome(ctx, Ok(no_license_status(product_id)))

-----------------------------------------------------------------------------
(* windows.rs: the catalog query and the purchase.                         *)

ProductKinds == {"Durable", "Subscription"}

NativePrice(id) ==
    IF id = "gem" THEN <<"$", "4", ".", "1", "0">> ELSE <<"F", "r", "e", "e">>

NativeSkus(id, kind) ==
    << [StoreId |-> id \o "/0010", FormattedPrice |-> "sku price",
        SubscriptionInfo |-> IF kind = "Subscription"
                             THEN [ok |-> TRUE, BillingPeriod |-> 1,
                                   BillingPeriodUnit |-> 2]
                             ELSE [ok |-> FALSE]] >>

\* A StoreProduct; ~readable: one of its property getters fails
NativeProducts ==
    { [StoreId |-> id, Kind |-> k, Title |-> "title", Description |-> "description",
       FormattedPrice |-> "price", CurrencyCode |-> "USD",
       FormattedBasePrice |-> NativePrice(id), Skus |-> NativeSkus(id, k),
       readable |-> r] : id \in ProductIds, k \in ProductKinds, r \in BOOLEAN }

\* the store's catalog in the order a result map yields it: no id twice
Catalogs ==
    { <<>> } \cup { <<p>> : p \in NativeProducts }
    \cup { c \in { <<p1, p2>> : p1 \in NativeProducts, p2 \in NativeProducts }
             : c[1].StoreId # c[2].StoreId }

\* the product kinds get_products asks for
product_kinds(product_type) ==
    CASE product_type = "inapp" -> {"Consumable", "UnmanagedConsumable", "Durable"}
      [] product_type = "subs"  -> {"Subscription"}
      [] OTHER -> {"Consumable", "UnmanagedConsumable", "Durable", "Subscription"}

SeqToSet(q) == { q[i] : i \in 1..Len(q) }

\* what GetStoreProductsAsync(kinds, ids) finds in a catalog
StoreQuery(catalog, kinds, ids) ==
    SelectSeq(catalog, LAMBDA p : p.Kind \in kinds /\ p.StoreId \in ids)

\* every answer the store can give to a query: a failed call ("err"), a result
\* carrying an extended error ("ext_err"), or the products found ("ok")
QueryAnswers(product_ids, product_type) ==
    { [kind |-> "err"], [kind |-> "ext_err"] }
    \cup { [kind |-> "ok",
            products |-> StoreQuery(c, product_kinds(product_type), SeqToSet(product_ids))]
             : c \in Catalogs }

\* a mutant of BillingUnit: the week and month letters exchanged
BillingUnitSwapped(unit) ==
    CASE unit = 0 -> "D"
      [] unit = 1 -> "M"
      [] unit = 2 -> "W"
      [] unit = 3 -> "Y"
      [] OTHER    -> "M"

\* match billing_period_unit.0
BillingUnit(unit) ==
    CASE unit = 0 -> "D"
      [] unit = 1 -> "W"
      [] unit = 2 -> "M"
      [] unit = 3 -> "Y"
      [] OTHER    -> "M"

\* format!("P{}{}", billing_period, match billing_period_unit.0 { .. })
billing_period_str_of(period, unit) == "P" \o ToString(period) \o BillingUnit(unit)

\* the SKU loop: one offer per SKU that has subscription info
RECURSIVE SkuOffers(_, _, _, _)
SkuOffers(skus, i, currency_code, micros) ==
    IF i > Len(skus) THEN <<>>
    ELSE LET sku  == skus[i]
             info == sku.SubscriptionInfo
             rest == SkuOffers(skus, i + 1, currency_code, micros)
         IN  IF ~info.ok THEN rest
             ELSE << [offer_token    |-> sku.StoreId,
                      base_plan_id   |-> sku.StoreId,
                      offer_id       |-> None,
                      pricing_phases |->
                        << [formatted_price     |-> sku.FormattedPrice,
                            price_currency_code |-> currency_code,
                            price_amount_micros |-> micros,
                            billing_period      |->
                                billing_period_str_of(info.BillingPeriod,
                                                      info.BillingPeriodUnit),
                            billing_cycle_count |-> 0,
                            recurrence_mode     |-> 1] >>] >> \o rest

convert_store_product_to_product(store_product, product_type) ==
    IF ~store_product.readable THEN Err("windows error")
    ELSE
    LET micros == MicrosOfPriceString(store_product.FormattedBasePrice)
        offers == IF product_type = "subs"
                  THEN SkuOffers(store_product.Skus, 1, store_product.CurrencyCode, micros)
                  ELSE <<>>
    IN  Ok([product_id          |-> store_product.StoreId,
            title               |-> store_product.Title,
            description         |-> store_product.Description,
            product_type        |-> product_type,
            formatted_price     |-> Some(store_product.FormattedPrice),
            price_currency_code |-> Some(store_product.CurrencyCode),
            price_amount_micros |-> Some(micros),
            subscription_offer_details |-> IF offers # <<>> THEN Some(offers) ELSE None])

\* a mutant of ProductsLoop: a product that fails to convert is skipped
RECURSIVE ProductsLoopSkipping(_, _, _, _)
ProductsLoopSkipping(found, i, product_type, products) ==
    IF i > Len(found) THEN Ok([products |-> products])
    ELSE LET product == convert_store_product_to_product(found[i], product_type)
         IN  IF ~product.ok
             THEN ProductsLoopSkipping(found, i + 1, product_type, products)
             ELSE ProductsLoopSkipping(found, i + 1, product_type,
                                       Append(products, product.value))

\* the while loop of get_products from the i-th product on
RECURSIVE ProductsLoop(_, _, _, _)
ProductsLoop(found, i, product_type, products) ==
    IF i > Len(found) THEN Ok([products |-> products])
    ELSE LET product == convert_store_product_to_product(found[i], product_type)
         IN  IF ~product.ok THEN product
             ELSE ProductsLoop(found, i + 1, product_type, Append(products, product.value))

\* native.query: one of QueryAnswers
get_products(cache, n, product_ids, product_type, native) ==
    LET ctx == get_store_context(cache, n, native.gd)
    IN  IF ~ctx.ok THEN Outcome(ctx, Err(ctx.error))
        ELSE IF native.query.kind = "err"
        THEN Outcome(ctx, Err("Failed to get products"))
        ELSE IF native.query.kind = "ext_err"
        THEN Outcome(ctx, Err("Store query failed with error"))
        ELSE Outcome(ctx, ProductsLoop(native.query.products, 1, product_type, <<>>))

\* what RequestPurchase*Async answers: the call fails ("err"), reading the
\* result's Status() fails ("status_err"), or a StorePurchaseStatus
RequestAnswers == {"err", "status_err"} \cup PurchaseStatuses

\* the synthetic token: format!("win_{}_{}", product_id, purchase_time)
purchase_token_of(product_id, purchase_time) ==
    "win_" \o product_id \o "_" \o I64ToString(purchase_time)

\* a mutant of purchase_state_of: a cancellation reported as a failure
purchase_state_of_cancel_fails(status) ==
    CASE status = "Succeeded"        -> Some(Purchased)
      [] status = "AlreadyPurchased" -> Some(Purchased)
      [] OTHER                       -> None

\* match status: the purchase state, None where the match returns an error
purchase_state_of(status) ==
    CASE status = "Succeeded"        -> Some(Purchased)
      [] status = "AlreadyPurchased" -> Some(Purchased)
      [] status = "NotPurchased"     -> Some(Canceled)
      [] OTHER                       -> None

\* a mutant of lookup_is_empty: the emptiness test dropped
lookup_is_empty_never(products) == FALSE

\* if products_response.products.is_empty()
lookup_is_empty(products) == products = <<>>

\* options: Option<PurchaseOptions>, the options [offer_token: Option<String>].  The result carries,
\* besides the program's values, which native purchase request was issued.
purchase(cache, n, clock, product_id, product_type, options, native) ==
    LET ctx      == get_store_context(cache, n, native.gd)
        lookup   == get_products(ctx.cache, ctx.constructed, <<product_id>>,
                                 product_type, native)
        offer_token == IF options = None THEN None ELSE options[1].offer_token
        request  == IF offer_token # None THEN "RequestPurchaseWithPurchaseProperties"
                    ELSE "RequestPurchase"
        status   == native.request
        purchase_state == purchase_state_of(status)
        purchase_time  == I64(clock)
        token          == purchase_token_of(product_id, purchase_time)
        out(req, result) == [store_context |-> ctx.cache, constructed |-> ctx.constructed,
                             requested |-> req, result |-> result]
    IN  IF ~ctx.ok THEN out("none", Err(ctx.error))
        ELSE IF ~lookup.result.ok THEN out("none", lookup.result)
        ELSE IF lookup_is_empty(lookup.result.value.products)
        THEN out("none", Err("Product not found"))
        ELSE IF status = "err" THEN out(request, Err("Purchase request failed"))
        ELSE IF status = "status_err" THEN out(request, Err("windows error"))
        ELSE IF status = "NetworkError"
        THEN out(request, Err("Network error during purchase"))
        ELSE IF status = "ServerError"
        THEN out(request, Err("Server error during purchase"))
        ELSE IF purchase_state = None THEN out(request, Err("Purchase failed"))
        ELSE out(request, Ok(
               [order_id         |-> Some(token),
                package_name     |-> PackageName,
                product_id       |-> product_id,
                purchase_time    |-> purchase_time,
                purchase_token   |-> token,
                purchase_state   |-> purchase_state[1],
                is_auto_renewing |-> (product_type = "subs"),
                is_acknowledged  |-> TRUE,
                original_json    |-> "{\"status\":" \o ToString(StatusCode(status))
                                     \o ",\"message\":\"" \o native.message
                                     \o "\",\"productId\":\"" \o product_id \o "\"}",
                signature        |-> ""]))

-----------------------------------------------------------------------------
(* The Windows adapter as a state machine: one action per operation, each  *)
(* the whole call; the store's answers are drawn where the call asks.  The *)
(* host takes the response (Deliver) before it issues its next command.    *)

Idle == [op |-> "none"]

IdLists         == { <<"gem">>, <<"gem_1">>, <<"gem", "gem_1">> }
PurchaseOptions == { None, Some([offer_token |-> None]), Some([offer_token |-> Some("tok1")]) }
PurchaseTokens  == { "", "gem/0010", "win_gem_0" }

Unasked == [kind |-> "unasked"]

\* StoreContext::GetDefault() is asked only when nothing is cached
GdAnswers(cache) == IF cache = None THEN {"ok", "fail"} ELSE {"unasked"}

\* the store's answers one get_products call consumes
GetProductsNatives(cache, product_ids, product_type) ==
    { [gd |-> g, query |-> q] :
        g \in GdAnswers(cache) \ {"fail"}, q \in QueryAnswers(product_ids, product_type) }
    \cup { [gd |-> g, query |-> Unasked] : g \in GdAnswers(cache) \cap {"fail"} }

\* the store's answers one restore_purchases or get_product_status call consumes
LicenseNatives(cache) ==
    { [gd |-> g, app_license |-> a] : g \in GdAnswers(cache) \ {"fail"}, a \in LicenseAnswers }
    \cup { [gd |-> g, app_license |-> Unasked] : g \in GdAnswers(cache) \cap {"fail"} }

\* the lookup of purchase finds the product
LookupFinds(query, product_type) ==
    /\ query.kind = "ok"
    /\ query.products # <<>>
    /\ ProductsLoop(query.products, 1, product_type, <<>>).ok

\* the store's answers one purchase call consumes: the purchase request is
\* answered only when the call gets that far
PurchaseNatives(cache, product_id, product_type) ==
    { [gd |-> n.gd, query |-> n.query, request |-> r, message |-> ""] :
        n \in { m \in GetProductsNatives(cache, <<product_id>>, product_type)
                  : LookupFinds(m.query, product_type) },
        r \in RequestAnswers }
    \cup
    { [gd |-> n.gd, query |-> n.query, request |-> "unasked", message |-> ""] :
        n \in { m \in GetProductsNatives(cache, <<product_id>>, product_type)
                  : ~LookupFinds(m.query, product_type) } }

Commit(op, request, native, outcome) ==
    /\ store_context' = outcome.store_context
    /\ constructed'   = outcome.constructed
    /\ last' = [op |-> op, request |-> request, native |-> native, now |-> now,
                before |-> [store_context |-> store_context, constructed |-> constructed],
                outcome |-> outcome]
    /\ UNCHANGED now

Initialize ==
    /\ last = Idle
    /\ \E g \in GdAnswers(store_context) :
           Commit("initialize", <<>>, [gd |-> g],
                  initialize(store_context, constructed, [gd |-> g]))

GetProducts ==
    /\ last = Idle
    /\ \E ids \in IdLists, pt \in ProductTypes :
           \E native \in GetProductsNatives(store_context, ids, pt) :
               Commit("get_products", [product_ids |-> ids, product_type |-> pt], native,
                      get_products(store_context, constructed, ids, pt, native))

PurchaseCall ==
    /\ last = Idle
    /\ \E id \in ProductIds, pt \in ProductTypes, opts \in PurchaseOptions :
           \E native \in PurchaseNatives(store_context, id, pt) :
               Commit("purchase",
                      [product_id |-> id, product_type |-> pt, options |-> opts], native,
                      purchase(store_context, constructed, now, id, pt, opts, native))

RestorePurchases ==
    /\ last = Idle
    /\ \E pt \in ProductTypes :
           \E native \in LicenseNatives(store_context) :
               Commit("restore_purchases", [product_type |-> pt], native,
                      restore_purchases(store_context, constructed, now, pt, native))

AcknowledgePurchase ==
    /\ last = Idle
    /\ \E token \in PurchaseTokens :
           Commit("acknowledge_purchase", [purchase_token |-> token], <<>>,
                  acknowledge_purchase(store_context, constructed, token))

GetProductStatus ==
    /\ last = Idle
    /\ \E id \in ProductIds, pt \in ProductTypes :
           \E native \in LicenseNatives(store_context) :
               Commit("get_product_status", [product_id |-> id, product_type |-> pt], native,
                      get_product_status(store_context, constructed, id, pt, native))

\* the system clock advances between calls, or does not
Tick ==
    /\ last = Idle
    /\ now < MaxClock
    /\ now' = now + 1
    /\ UNCHANGED <<store_context, constructed, last>>

\* the host takes the response
Deliver ==
    /\ last # Idle
    /\ last' = Idle
    /\ UNCHANGED <<store_context, constructed, now>>

WinInit ==
    /\ store_context = None
    /\ constructed = 0
    /\ now = 0
    /\ last = Idle
    /\ issued = <<>>

ConcIdle ==
    /\ pc = <<>> /\ lock = <<>> /\ is_none = <<>> /\ after_creation = <<>> /\ ret = <<>>
PriceIdle == formatted_base_price = <<>> /\ price_amount_micros = <<>>
MacIdle   == sig = <<>> /\ mac_last = <<>> /\ validated_before = FALSE
BillingIdle ==
    billing_period = 0 /\ billing_period_unit = 0 /\ billing_period_str = <<>>
TimeIdle  == windows_ticks = <<>> /\ unix_millis = <<>>
SerdeIdle == wire = <<>> /\ serialized_from = <<>> /\ decoded = <<>>
ConvIdle  == BillingIdle /\ TimeIdle /\ SerdeIdle
CmdIdle   == active = <<>> /\ cmd_last = <<>>

Init == WinInit /\ ConcIdle /\ PriceIdle /\ MacIdle /\ ConvIdle /\ CmdIdle

Purchase == PurchaseCall /\ UNCHANGED issued

Next ==
    \/ Initialize /\ UNCHANGED <<issued, concVars, priceVars, macVars, convVars, cmdVars>>
    \/ GetProducts /\ UNCHANGED <<issued, concVars, priceVars, macVars, convVars, cmdVars>>
    \/ Purchase /\ UNCHANGED <<concVars, priceVars, macVars, convVars, cmdVars>>
    \/ RestorePurchases /\ UNCHANGED <<issued, concVars, priceVars, macVars, convVars, cmdVars>>
    \/ AcknowledgePurchase /\ UNCHANGED <<issued, concVars, priceVars, macVars, convVars, cmdVars>>
    \/ GetProductStatus /\ UNCHANGED <<issued, concVars, priceVars, macVars, convVars, cmdVars>>
    \/ Tick /\ UNCHANGED <<issued, concVars, priceVars, macVars, convVars, cmdVars>>
    \/ Deliver /\ UNCHANGED <<issued, concVars, priceVars, macVars, convVars, cmdVars>>

Spec == Init /\ [][Next]_vars

\* The purchase calls alone, their tokens recorded in the order of the calls
PurchaseLogged ==
    /\ Len(issued) < MaxPurchases
    /\ PurchaseCall
    /\ issued' = IF last'.outcome.result.ok
                 THEN Append(issued, last'.outcome.result.value.purchase_token)
                 ELSE issued

TokenNext ==
    \/ PurchaseLogged /\ UNCHANGED <<concVars, priceVars, macVars, convVars, cmdVars>>
    \/ Tick /\ UNCHANGED <<issued, concVars, priceVars, macVars, convVars, cmdVars>>
    \/ Deliver /\ UNCHANGED <<issued, concVars, priceVars, macVars, convVars, cmdVars>>

TokenSpec == Init /\ [][TokenNext]_vars

-----------------------------------------------------------------------------
(* get_store_context run by several threads of one adapter instance: the   *)
(* operations of the plugin are called from the host's thread pool and     *)
(* share Iap.store_context, an Arc<RwLock<Option<StoreContext>>>.          *)

NumThreads == 2
MaxCalls   == 2
Threads    == 1..NumThreads

\* a mutant of lock_mode: read() written for write()
lock_mode_read == "read"

\* self.store_context.write(): the access every call asks of the RwLock
lock_mode == "write"

\* std::sync::RwLock: a writer excludes everyone, a reader excludes writers
CanAcquire(mode) ==
    IF mode = "write"
    THEN \A u \in Threads : lock[u] = "none"
    ELSE \A u \in Threads : lock[u] # "write"

\* a thread enters get_store_context
Call(t) ==
    /\ pc[t] = "idle"
    /\ Len(ret[t]) < MaxCalls
    /\ pc' = [pc EXCEPT ![t] = "lock"]
    /\ after_creation' = [after_creation EXCEPT ![t] = store_context # None]
    /\ UNCHANGED <<store_context, constructed, lock, is_none, ret>>

\* let mut context_guard = self.store_context.write().unwrap();
AcquireLock(t) ==
    /\ pc[t] = "lock"
    /\ CanAcquire(lock_mode)
    /\ lock' = [lock EXCEPT ![t] = lock_mode]
    /\ pc' = [pc EXCEPT ![t] = "check"]
    /\ UNCHANGED <<store_context, constructed, is_none, after_creation, ret>>

\* if context_guard.is_none() {
CheckNone(t) ==
    /\ pc[t] = "check"
    /\ is_none' = [is_none EXCEPT ![t] = needs_construction(store_context)]
    /\ pc' = [pc EXCEPT ![t] = IF is_none'[t] THEN "construct" ELSE "clone"]
    /\ UNCHANGED <<store_context, constructed, lock, after_creation, ret>>

\* a mutant of Construct: the slot filled before the answer is known, a
\* failed attempt leaving the stale handle behind
Construct_filling_first(t) ==
    /\ pc[t] = "construct"
    /\ \E gd \in {"ok", "fail"} :
          IF gd = "ok"
          THEN /\ store_context' = Some(constructed + 1)
               /\ constructed' = constructed + 1
               /\ pc' = [pc EXCEPT ![t] = "clone"]
               /\ UNCHANGED <<lock, ret>>
          ELSE /\ ret' = [ret EXCEPT ![t] =
                              Append(@, Err("Failed to get store context"))]
               /\ lock' = [lock EXCEPT ![t] = "none"]
               /\ pc' = [pc EXCEPT ![t] = "idle"]
               /\ store_context' = Some(constructed)
               /\ UNCHANGED constructed
    /\ UNCHANGED <<is_none, after_creation>>

\* StoreContext::GetDefault().map_err(..)?; *context_guard = Some(context);
\* the early return of `?` drops the guard
Construct(t) ==
    /\ pc[t] = "construct"
    /\ \E gd \in {"ok", "fail"} :
          IF gd = "ok"
          THEN /\ store_context' = Some(constructed + 1)
               /\ constructed' = constructed + 1
               /\ pc' = [pc EXCEPT ![t] = "clone"]
               /\ UNCHANGED <<lock, ret>>
          ELSE /\ ret' = [ret EXCEPT ![t] =
                              Append(@, Err("Failed to get store context"))]
               /\ lock' = [lock EXCEPT ![t] = "none"]
               /\ pc' = [pc EXCEPT ![t] = "idle"]
               /\ UNCHANGED <<store_context, constructed>>
    /\ UNCHANGED <<is_none, after_creation>>

\* Ok(context_guard.as_ref().unwrap().clone()), the guard dropped at the return
Return(t) ==
    /\ pc[t] = "clone"
    /\ ret' = [ret EXCEPT ![t] = Append(@, Ok(store_context[1]))]
    /\ lock' = [lock EXCEPT ![t] = "none"]
    /\ pc' = [pc EXCEPT ![t] = "idle"]
    /\ UNCHANGED <<store_context, constructed, is_none, after_creation>>

ConcInit ==
    /\ WinInit
    /\ pc = [t \in Threads |-> "idle"]
    /\ lock = [t \in Threads |-> "none"]
    /\ is_none = [t \in Threads |-> FALSE]
    /\ after_creation = [t \in Threads |-> FALSE]
    /\ ret = [t \in Threads |-> <<>>]
    /\ PriceIdle /\ MacIdle /\ ConvIdle /\ CmdIdle

ConcFrame == UNCHANGED <<now, last, issued, priceVars, macVars, convVars, cmdVars>>

ConcNext ==
    \/ \E t \in Threads : Call(t) /\ ConcFrame
    \/ \E t \in Threads : AcquireLock(t) /\ ConcFrame
    \/ \E t \in Threads : CheckNone(t) /\ ConcFrame
    \/ \E t \in Threads : Construct(t) /\ ConcFrame
    \/ \E t \in Threads : Return(t) /\ ConcFrame

ConcSpec == ConcInit /\ [][ConcNext]_vars

-----------------------------------------------------------------------------
(* The price conversion of convert_store_product_to_product on its own,    *)
(* over every short price string the store could hand over.                *)

MaxPriceLen == 5
PriceChars  == {"$", "4", "1", ".", "0", "U+00BD"}

RECURSIVE StringsUpTo(_)
StringsUpTo(n) ==
    IF n = 0 THEN {<<>>}
    ELSE LET shorter == StringsUpTo(n - 1)
         IN  shorter \cup {Append(t, c) : t \in {u \in shorter : Len(u) = n - 1},
                                          c \in PriceChars}

PriceInit ==
    /\ WinInit /\ ConcIdle /\ MacIdle /\ ConvIdle /\ CmdIdle
    /\ formatted_base_price \in StringsUpTo(MaxPriceLen)
    /\ price_amount_micros = None

\* let price_amount_micros = (price_value * 1_000_000.0) as i64;
ConvertPrice ==
    /\ price_amount_micros = None
    /\ price_amount_micros' = Some(MicrosOfPriceString(formatted_base_price))
    /\ UNCHANGED <<formatted_base_price, winVars, concVars, macVars, convVars, cmdVars>>

PriceNext == ConvertPrice

PriceSpec == PriceInit /\ [][PriceNext]_vars

-----------------------------------------------------------------------------
(* The billing period encoding of convert_store_product_to_product on its  *)
(* own, over the pairs (count, unit code) a SKU's subscription info holds. *)

MaxBillingPeriod == 12
MaxUnitCode      == 6
UnitCodes        == (-1)..MaxUnitCode

BillingInit ==
    /\ WinInit /\ ConcIdle /\ PriceIdle /\ MacIdle /\ TimeIdle /\ SerdeIdle /\ CmdIdle
    /\ billing_period \in 0..MaxBillingPeriod
    /\ billing_period_unit \in UnitCodes
    /\ billing_period_str = None

\* let billing_period_str = format!(..);
EncodeBillingPeriod ==
    /\ billing_period_str = None
    /\ billing_period_str' = Some(billing_period_str_of(billing_period, billing_period_unit))
    /\ UNCHANGED <<billing_period, billing_period_unit, winVars, concVars, priceVars,
                   macVars, timeVars, serdeVars, cmdVars>>

BillingNext == EncodeBillingPeriod

BillingSpec == BillingInit /\ [][BillingNext]_vars

-----------------------------------------------------------------------------
(* datetime_to_unix_millis on its own, over tick values around 1601, 1970  *)
(* and 2001, whole seconds and not.                                        *)

MaxSeconds == 8

\* 1601-01-01, 1970-01-01 and 2001-01-01 in ticks
TickBases == { <<>>, <<0, 0, 7360, 6444, 11>>, <<0, 0, 8080, 6227, 12>> }

\* ticks within a second: none, one, all but one
TickFractions == { <<>>, <<1>>, <<9999, 999>> }

TickInputs ==
    { [neg |-> FALSE,
       mag |-> NatAdd(NatAdd(b, NatMulPow10(NatFromInt(d), 7)), f)] :
        b \in TickBases, d \in 0..MaxSeconds, f \in TickFractions }

TimeInit ==
    /\ WinInit /\ ConcIdle /\ PriceIdle /\ MacIdle /\ BillingIdle /\ SerdeIdle /\ CmdIdle
    /\ windows_ticks \in TickInputs
    /\ unix_millis = None

\* Self::datetime_to_unix_millis(&expiration_date)
ConvertTime ==
    /\ unix_millis = None
    /\ unix_millis' = Some(datetime_to_unix_millis(windows_ticks))
    /\ UNCHANGED <<windows_ticks, winVars, concVars, priceVars, macVars,
                   billingVars, serdeVars, cmdVars>>

TimeNext == ConvertTime

TimeSpec == TimeInit /\ [][TimeNext]_vars

-----------------------------------------------------------------------------
(* The serde implementations of src/src/models.rs: PurchaseStateValue, and *)
(* the derived Deserialize of Purchase the pass-through adapters decode    *)
(* native payloads with.  The wire carries an i32 or something that is not *)
(* one (another JSON type, or an integer out of the i32 range).            *)

MaxWire == 20

PurchaseStateValues == {"Purchased", "Canceled", "Pending"}

\* *self as i32
as_i32(v) ==
    CASE v = "Purchased" -> Purchased
      [] v = "Canceled"  -> Canceled
      [] v = "Pending"   -> Pending

WireValues ==
    { [kind |-> "i32", value |-> n] :
        n \in ((-MaxWire)..MaxWire) \cup {-2147483647, 2147483647} }
    \cup { [kind |-> "not_i32"] }

\* impl Serialize for PurchaseStateValue: serializer.serialize_i32(*self as i32)
serialize_state(v) == [kind |-> "i32", value |-> as_i32(v)]

\* a mutant of deserialize_state: an unknown state taken for pending
deserialize_state_lenient(w) ==
    IF w.kind # "i32" THEN Err("invalid type: expected i32")
    ELSE CASE w.value = 0 -> Ok("Purchased")
           [] w.value = 1 -> Ok("Canceled")
           [] OTHER       -> Ok("Pending")

\* impl Deserialize for PurchaseStateValue
deserialize_state(w) ==
    IF w.kind # "i32" THEN Err("invalid type: expected i32")
    ELSE CASE w.value = 0 -> Ok("Purchased")
           [] w.value = 1 -> Ok("Canceled")
           [] w.value = 2 -> Ok("Pending")
           [] OTHER       -> Err("Invalid purchase state: " \o ToString(w.value))

\* #[derive(Deserialize)] struct Purchase, of a payload whose purchaseState is
\* w and whose other fields are well-formed: purchase_state is an i32
deserialize_purchase(w) ==
    IF w.kind # "i32" THEN Err("invalid type: expected i32")
    ELSE Ok([order_id         |-> Some("order"),
             package_name     |-> PackageName,
             product_id       |-> "gem",
             purchase_time    |-> I64(0),
             purchase_token   |-> "token",
             purchase_state   |-> w.value,
             is_auto_renewing |-> FALSE,
             is_acknowledged  |-> TRUE,
             original_json    |-> "",
             signature        |-> ""])

SerdeInit ==
    /\ WinInit /\ ConcIdle /\ PriceIdle /\ MacIdle /\ BillingIdle /\ TimeIdle /\ CmdIdle
    /\ wire \in WireValues
    /\ serialized_from = None
    /\ decoded = None

SerdeFrame ==
    UNCHANGED <<winVars, concVars, priceVars, macVars, billingVars, timeVars, cmdVars>>

\* a PurchaseStateValue is put on the wire
SerializeState ==
    /\ decoded = None /\ serialized_from = None
    /\ \E v \in PurchaseStateValues :
          /\ wire' = serialize_state(v)
          /\ serialized_from' = Some(v)
    /\ UNCHANGED decoded

\* the wire is read as a PurchaseStateValue (ProductStatus.purchase_state)
DeserializeState ==
    /\ decoded = None
    /\ decoded' = [type |-> "PurchaseStateValue", result |-> deserialize_state(wire)]
    /\ UNCHANGED <<wire, serialized_from>>

\* a native purchase payload is read as a Purchase (to_result, run_mobile_plugin)
DeserializePurchase ==
    /\ decoded = None
    /\ decoded' = [type |-> "Purchase", result |-> deserialize_purchase(wire)]
    /\ UNCHANGED <<wire, serialized_from>>

SerdeNext ==
    \/ SerializeState /\ SerdeFrame
    \/ DeserializeState /\ SerdeFrame
    \/ DeserializePurchase /\ SerdeFrame

SerdeSpec == SerdeInit /\ [][SerdeNext]_vars

-----------------------------------------------------------------------------
(* The dispatcher (src/src/lib.rs, src/src/commands.rs): setup manages one *)
(* adapter, chosen by the target the plugin was built for, and every       *)
(* command calls the method of its own name on it.  lib.rs names three     *)
(* adapters; the sources hold two of them, desktop.rs (windows, linux) and *)
(* apple.rs (macos, ios).                                                  *)

Targets == {"macos", "ios", "windows", "linux"}

\* #[cfg(target_os = ..)] let iap = <adapter>::init(app, api)?;
adapter_for(target) ==
    IF target \in {"macos", "ios"} THEN "apple" ELSE "desktop"

\* the name apple.rs gives run_swift_plugin for a method
SwiftName(op) ==
    CASE op = "initialize"           -> "initialize"
      [] op = "get_products"         -> "getProducts"
      [] op = "purchase"             -> "purchase"
      [] op = "restore_purchases"    -> "restorePurchases"
      [] op = "get_purchase_history" -> "getPurchaseHistory"
      [] op = "acknowledge_purchase" -> "acknowledgePurchase"
      [] op = "get_product_status"   -> "getProductStatus"

\* a mutant of desktop_op: the history reported empty where there is none
desktop_op_empty_history(op, args) ==
    [called |-> [adapter |-> "desktop", op |-> op, args |-> args],
     plugin |-> None,
     result |-> IF op = "get_purchase_history" THEN Ok([history |-> <<>>])
                ELSE Err("IAP is not supported on this platform")]

\* desktop.rs: every method of the stub returns the same error
desktop_op(op, args) ==
    [called |-> [adapter |-> "desktop", op |-> op, args |-> args],
     plugin |-> None,
     result |-> Err("IAP is not supported on this platform")]

\* apple.rs: every method hands its arguments, as the request, to the Swift
\* plugin and returns what that answers
apple_op(op, args, answer) ==
    [called |-> [adapter |-> "apple", op |-> op, args |-> args],
     plugin |-> Some([name |-> SwiftName(op), payload |-> args]),
     result |-> answer]

\* app.iap().<op>(args): the method of the managed adapter
iap_call(adapter, op, args, answer) ==
    IF adapter = "desktop" THEN desktop_op(op, args) ELSE apple_op(op, args, answer)

cmd_initialize(adapter, payload, answer) ==
    iap_call(adapter, "initialize", <<>>, answer)

cmd_get_products(adapter, payload, answer) ==
    iap_call(adapter, "get_products", <<payload.product_ids, payload.product_type>>, answer)

\* a mutant of cmd_purchase: the offer token not passed on
cmd_purchase_without_offer(adapter, payload, answer) ==
    iap_call(adapter, "purchase", <<payload.product_id, payload.product_type, None>>, answer)

cmd_purchase(adapter, payload, answer) ==
    iap_call(adapter, "purchase",
             <<payload.product_id, payload.product_type, payload.offer_token>>, answer)

cmd_restore_purchases(adapter, payload, answer) ==
    iap_call(adapter, "restore_purchases", <<payload.product_type>>, answer)

cmd_get_purchase_history(adapter, payload, answer) ==
    iap_call(adapter, "get_purchase_history", <<>>, answer)

cmd_acknowledge_purchase(adapter, payload, answer) ==
    iap_call(adapter, "acknowledge_purchase", <<payload.purchase_token>>, answer)

\* registered by lib.rs and listed by build.rs; written after its six siblings
cmd_get_product_status(adapter, payload, answer) ==
    iap_call(adapter, "get_product_status", <<payload.product_id, payload.product_type>>,
             answer)

NoPayload == [none |-> TRUE]
GetProductsRequests ==
    [product_ids : IdLists, product_type : ProductTypes]
PurchaseRequests ==
    [product_id : ProductIds, product_type : ProductTypes,
     offer_token : {None, Some("tok1")}]
RestorePurchasesRequests == [product_type : ProductTypes]
AcknowledgePurchaseRequests == [purchase_token : PurchaseTokens]
GetProductStatusRequests == [product_id : ProductIds, product_type : ProductTypes]

\* what the native plugin answers a call; the stub asks nothing
PluginAnswers(adapter) ==
    IF adapter = "apple"
    THEN {Ok("response A"), Ok("response B"), Err("plugin error")}
    ELSE {Unasked}

\* .setup(|app, api| { let iap = <adapter>::init(app, api)?; app.manage(iap); Ok(()) })
Setup ==
    /\ active = None
    /\ \E target \in Targets : active' = Some(adapter_for(target))
    /\ UNCHANGED cmd_last

CmdCommit(command, payload, answer, outcome) ==
    /\ cmd_last' = [command |-> command, payload |-> payload, answer |-> answer,
                    adapter |-> active[1], called |-> outcome.called,
                    plugin |-> outcome.plugin, response |-> outcome.result]
    /\ UNCHANGED active

CmdInitialize ==
    /\ active # None
    /\ \E answer \in PluginAnswers(active[1]) :
          CmdCommit("initialize", NoPayload, answer,
                    cmd_initialize(active[1], NoPayload, answer))

CmdGetProducts ==
    /\ active # None
    /\ \E payload \in GetProductsRequests, answer \in PluginAnswers(active[1]) :
          CmdCommit("get_products", payload, answer,
                    cmd_get_products(active[1], payload, answer))

CmdPurchase ==
    /\ active # None
    /\ \E payload \in PurchaseRequests, answer \in PluginAnswers(active[1]) :
          CmdCommit("purchase", payload, answer,
                    cmd_purchase(active[1], payload, answer))

CmdRestorePurchases ==
    /\ active # None
    /\ \E payload \in RestorePurchasesRequests, answer \in PluginAnswers(active[1]) :
          CmdCommit("restore_purchases", payload, answer,
                    cmd_restore_purchases(active[1], payload, answer))

CmdGetPurchaseHistory ==
    /\ active # None
    /\ \E answer \in PluginAnswers(active[1]) :
          CmdCommit("get_purchase_history", NoPayload, answer,
                    cmd_get_purchase_history(active[1], NoPayload, answer))

CmdAcknowledgePurchase ==
    /\ active # None
    /\ \E payload \in AcknowledgePurchaseRequests, answer \in PluginAnswers(active[1]) :
          CmdCommit("acknowledge_purchase", payload, answer,
                    cmd_acknowledge_purchase(active[1], payload, answer))

CmdGetProductStatus ==
    /\ active # None
    /\ \E payload \in GetProductStatusRequests, answer \in PluginAnswers(active[1]) :
          CmdCommit("get_product_status", payload, answer,
                    cmd_get_product_status(active[1], payload, answer))

CmdInit ==
    /\ WinInit /\ ConcIdle /\ PriceIdle /\ MacIdle /\ ConvIdle
    /\ active = None
    /\ cmd_last = <<>>

CmdFrame == UNCHANGED <<winVars, concVars, priceVars, macVars, convVars>>

CmdNext ==
    \/ Setup /\ CmdFrame
    \/ CmdInitialize /\ CmdFrame
    \/ CmdGetProducts /\ CmdFrame
    \/ CmdPurchase /\ CmdFrame
    \/ CmdRestorePurchases /\ CmdFrame
    \/ CmdGetPurchaseHistory /\ CmdFrame
    \/ CmdAcknowledgePurchase /\ CmdFrame
    \/ CmdGetProductStatus /\ CmdFrame

CmdSpec == CmdInit /\ [][CmdNext]_vars

-----------------------------------------------------------------------------
(* The macOS adapter (src/src/macos.rs): every operation asks the Security *)
(* framework about the running binary, then calls its Swift function.      *)

\* OSStatus: errSecSuccess and errSecCSUnsigned
OSStatuses == {0, -67062}
FfiAnswers == {"ok_json", "bad_json", "err"}

\* a mutant of is_signature_valid: a check that passed once is not repeated
is_signature_valid_cached(copy_self, check_validity) ==
    IF validated_before THEN Ok(<<>>)
    ELSE IF copy_self # 0 THEN Err("Failed to get code reference")
    ELSE IF check_validity # 0 THEN Err("Code signature validation failed")
    ELSE Ok(<<>>)

\* codesign::is_signature_valid, given what SecCode::copy_self and
\* SecCode::check_validity return
is_signature_valid(copy_self, check_validity) ==
    IF copy_self # 0 THEN Err("Failed to get code reference")
    ELSE IF check_validity # 0 THEN Err("Code signature validation failed")
    ELSE Ok(<<>>)

\* Iap::to_result
to_result(bridged) ==
    CASE bridged = "ok_json"  -> Ok("parsed")
      [] bridged = "bad_json" -> Err("serde_json")
      [] bridged = "err"      -> Err("swift")

\* the common body of the six operations: codesign::is_signature_valid()?;
\* Self::to_result(ffi::<op>(..)); invoked lists the Swift functions called
mac_operation(op, copy_self, check_validity, bridged) ==
    LET gate == is_signature_valid(copy_self, check_validity)
    IN  IF ~gate.ok
        THEN [result |-> gate, invoked |-> <<>>]
        ELSE [result |-> to_result(bridged), invoked |-> <<op>>]

mac_initialize(cs, cv, bridged)           == mac_operation("initialize", cs, cv, bridged)
mac_get_products(cs, cv, bridged)         == mac_operation("getProducts", cs, cv, bridged)
mac_purchase(cs, cv, bridged)             == mac_operation("purchase", cs, cv, bridged)
mac_restore_purchases(cs, cv, bridged)    == mac_operation("restorePurchases", cs, cv, bridged)
mac_acknowledge_purchase(cs, cv, bridged) == mac_operation("acknowledgePurchase", cs, cv, bridged)
mac_get_product_status(cs, cv, bridged)   == mac_operation("getProductStatus", cs, cv, bridged)

MacCommit(op, bridged, outcome) ==
    /\ mac_last' = [op |-> op, sig |-> sig, bridged |-> bridged,
                    validated_before |-> validated_before,
                    result |-> outcome.result, invoked |-> outcome.invoked]
    /\ validated_before' =
           (validated_before \/ is_signature_valid(sig.copy_self, sig.check_validity).ok)
    /\ UNCHANGED sig

MacInitialize ==
    \E b \in FfiAnswers :
        MacCommit("initialize", b, mac_initialize(sig.copy_self, sig.check_validity, b))
MacGetProducts ==
    \E b \in FfiAnswers :
        MacCommit("getProducts", b, mac_get_products(sig.copy_self, sig.check_validity, b))
MacPurchase ==
    \E b \in FfiAnswers :
        MacCommit("purchase", b, mac_purchase(sig.copy_self, sig.check_validity, b))
MacRestorePurchases ==
    \E b \in FfiAnswers :
        MacCommit("restorePurchases", b,
                  mac_restore_purchases(sig.copy_self, sig.check_validity, b))
MacAcknowledgePurchase ==
    \E b \in FfiAnswers :
        MacCommit("acknowledgePurchase", b,
                  mac_acknowledge_purchase(sig.copy_self, sig.check_validity, b))
MacGetProductStatus ==
    \E b \in FfiAnswers :
        MacCommit("getProductStatus", b,
                  mac_get_product_status(sig.copy_self, sig.check_validity, b))

\* the binary on disk or its signature changes while the process runs
Tamper ==
    /\ \E cs, cv \in OSStatuses :
          /\ [copy_self |-> cs, check_validity |-> cv] # sig
          /\ sig' = [copy_self |-> cs, check_validity |-> cv]
    /\ UNCHANGED <<mac_last, validated_before>>

MacInit ==
    /\ WinInit /\ ConcIdle /\ PriceIdle /\ ConvIdle /\ CmdIdle
    /\ sig \in [copy_self : OSStatuses, check_validity : OSStatuses]
    /\ mac_last = <<>>
    /\ validated_before = FALSE

MacNext ==
    \/ MacInitialize /\ UNCHANGED <<winVars, concVars, priceVars, convVars, cmdVars>>
    \/ MacGetProducts /\ UNCHANGED <<winVars, concVars, priceVars, convVars, cmdVars>>
    \/ MacPurchase /\ UNCHANGED <<winVars, concVars, priceVars, convVars, cmdVars>>
    \/ MacRestorePurchases /\ UNCHANGED <<winVars, concVars, priceVars, convVars, cmdVars>>
    \/ MacAcknowledgePurchase /\ UNCHANGED <<winVars, concVars, priceVars, convVars, cmdVars>>
    \/ MacGetProductStatus /\ UNCHANGED <<winVars, concVars, priceVars, convVars, cmdVars>>
    \/ Tamper /\ UNCHANGED <<winVars, concVars, priceVars, convVars, cmdVars>>

MacSpec == MacInit /\ [][MacNext]_vars

-----------------------------------------------------------------------------
(* Claims about the Windows operations (Spec, TokenSpec).                  *)

LastIs(op) == last # Idle /\ last.op = op

LastResult == last.outcome.result

\* C1: the list restorePurchases returns holds only purchases whose state is
\* purchased (0); no license that is not active has a purchase in it.
C1_RestoreOnlyPurchased ==
    (LastIs("restore_purchases") /\ LastResult.ok) =>
        LET purchases == LastResult.value.purchases
            licenses  == last.native.app_license.licenses
        IN  /\ \A i \in 1..Len(purchases) : purchases[i].purchase_state = Purchased
            /\ \A j \in 1..Len(licenses) :
                  ~licenses[j].IsActive =>
                      \A i \in 1..Len(purchases) :
                          purchases[i].product_id # licenses[j].InAppOfferToken

\* a restore over an inactive license followed by an active one returned one purchase
C1_Witness ==
    /\ LastIs("restore_purchases") /\ LastResult.ok
    /\ Len(last.native.app_license.licenses) = 2
    /\ ~last.native.app_license.licenses[1].IsActive
    /\ last.native.app_license.licenses[2].IsActive
    /\ Len(LastResult.value.purchases) = 1

\* C2: getProductStatus for a product id without an entry in the add-on license
\* map succeeds with isOwned = false and the six optional fields unset, for
\* every product type hint.
C2_NoLicenseUnset ==
    (/\ LastIs("get_product_status")
     /\ last.native.app_license.kind = "ok"
     /\ ~HasKey(last.native.app_license.licenses, last.request.product_id)) =>
        /\ LastResult.ok
        /\ LastResult.value.product_id = last.request.product_id
        /\ LastResult.value.is_owned = FALSE
        /\ LastResult.value.purchase_state = None
        /\ LastResult.value.purchase_time = None
        /\ LastResult.value.expiration_time = None
        /\ LastResult.value.is_auto_renewing = None
        /\ LastResult.value.is_acknowledged = None
        /\ LastResult.value.purchase_token = None

\* a status query for "gem" answered from a map that holds only "gem_1"
C2_Witness ==
    /\ LastIs("get_product_status") /\ LastResult.ok
    /\ last.request.product_id = "gem"
    /\ last.request.product_type = "inapp"
    /\ last.native.app_license.kind = "ok"
    /\ Len(last.native.app_license.licenses) = 1
    /\ last.native.app_license.licenses[1].key = "gem_1"
    /\ LastResult.value.purchase_token = None

\* C3: in every ProductStatus returned, when purchaseState is present, isOwned
\* is true exactly when purchaseState is purchased; never isOwned with canceled.
C3_OwnedIffPurchased ==
    (/\ LastIs("get_product_status") /\ LastResult.ok
     /\ LastResult.value.purchase_state # None) =>
        /\ LastResult.value.is_owned <=> LastResult.value.purchase_state = Some(Purchased)
        /\ ~(LastResult.value.is_owned /\ LastResult.value.purchase_state = Some(Canceled))

\* a status query that found an inactive license
C3_Witness ==
    /\ LastIs("get_product_status") /\ LastResult.ok
    /\ HasKey(last.native.app_license.licenses, last.request.product_id)
    /\ ~Lookup(last.native.app_license.licenses, last.request.product_id).IsActive
    /\ LastResult.value.purchase_state = Some(Canceled)
    /\ ~LastResult.value.is_owned

\* C4: purchase maps the native status: Succeeded and AlreadyPurchased give a
\* Purchase with state purchased (0) and a non-empty token; NotPurchased gives a
\* Purchase with state canceled (1), not an error; every other status or
\* failure of the request gives an error.
C4_StatusMapping ==
    (LastIs("purchase") /\ last.native.request # "unasked") =>
        LET status == last.native.request
        IN  /\ status \in {"Succeeded", "AlreadyPurchased"} =>
                  /\ LastResult.ok
                  /\ LastResult.value.purchase_state = Purchased
                  /\ LastResult.value.purchase_token # ""
            /\ status = "NotPurchased" =>
                  /\ LastResult.ok
                  /\ LastResult.value.purchase_state = Canceled
            /\ status \notin {"Succeeded", "AlreadyPurchased", "NotPurchased"} =>
                  ~LastResult.ok

\* a purchase the user cancelled came back as a value
C4_Witness ==
    /\ LastIs("purchase")
    /\ last.native.request = "NotPurchased"
    /\ LastResult.ok
    /\ LastResult.value.purchase_state = Canceled

\* C5: the tokens of any two distinct purchase calls differ, also for two calls
\* for the same product id within the same clock millisecond.
C5_TokensUnique ==
    \A i, j \in 1..Len(issued) : i # j => issued[i] # issued[j]

\* C6: acknowledgePurchase returns success = true for every token and in every
\* state, asks the store nothing and leaves the cached store context as it was.
C6_AcknowledgeNoOp ==
    LastIs("acknowledge_purchase") =>
        /\ LastResult.ok
        /\ LastResult.value.success = TRUE
        /\ last.native = <<>>
        /\ last.outcome.store_context = last.before.store_context
        /\ last.outcome.constructed = last.before.constructed
        /\ store_context = last.before.store_context

\* an acknowledgement made while no store context was cached
C6_Witness ==
    /\ LastIs("acknowledge_purchase")
    /\ last.before.store_context = None
    /\ LastResult.ok
    /\ store_context = None

\* C11: a Product returned by getProducts never carries priceAmountMicros = 0
\* in place of a price the store did not supply: when the native price string
\* holds no numeric price, the field is unset.
C11_MicrosOmitted ==
    (LastIs("get_products") /\ LastResult.ok) =>
        LET found    == last.native.query.products
            products == LastResult.value.products
        IN  \A i \in 1..Len(products) :
                ~ParsesAsF64(strip_non_numeric(found[i].FormattedBasePrice)) =>
                    products[i].price_amount_micros = None

\* 2,592,000,000 ms
Days30 == [neg |-> FALSE, mag |-> <<0, 9200, 25>>]

\* C14: in restorePurchases and getProductStatus, when the product type hint is
\* "subs" and the license's converted expiration time is greater than 0, the
\* purchaseTime reported is the expiration time minus 2,592,000,000 ms.
C14_SubsPurchaseTime ==
    /\ (LastIs("restore_purchases") /\ LastResult.ok
            /\ last.request.product_type = "subs") =>
          \A i \in 1..Len(LastResult.value.purchases) :
              LET p   == LastResult.value.purchases[i]
                  exp == datetime_to_unix_millis(
                             Lookup(last.native.app_license.licenses,
                                    p.product_id).ExpirationDate)
              IN  I64Positive(exp) => p.purchase_time = I64Sub(exp, Days30)
    /\ (LastIs("get_product_status") /\ LastResult.ok
            /\ last.request.product_type = "subs"
            /\ LastResult.value.expiration_time # None) =>
          LastResult.value.purchase_time =
              Some(I64Sub(LastResult.value.expiration_time[1], Days30))

\* a restore of two subscriptions expiring 2001-01-01 (978307200000) reported
\* them bought 975715200000, while the clock read 1
C14_Witness ==
    /\ LastIs("restore_purchases") /\ LastResult.ok
    /\ last.request.product_type = "subs"
    /\ Len(LastResult.value.purchases) = 2
    /\ LastResult.value.purchases[2].purchase_time
           = [neg |-> FALSE, mag |-> <<0, 1520, 9757>>]
    /\ now = 1

\* what the call in flight returns on an adapter nothing has been called on,
\* the store answering the same
FreshResult ==
    LET r == last.request
        native == IF last.op = "acknowledge_purchase" THEN last.native
                  ELSE [last.native EXCEPT !.gd = "ok"]
    IN  CASE last.op = "get_products" ->
               get_products(None, 0, r.product_ids, r.product_type, native).result
          [] last.op = "purchase" ->
               purchase(None, 0, last.now, r.product_id, r.product_type, r.options,
                        native).result
          [] last.op = "restore_purchases" ->
               restore_purchases(None, 0, last.now, r.product_type, native).result
          [] last.op = "acknowledge_purchase" ->
               acknowledge_purchase(None, 0, r.purchase_token).result
          [] last.op = "get_product_status" ->
               get_product_status(None, 0, r.product_id, r.product_type, native).result

\* C19: no operation depends on initialize: getProducts, purchase,
\* restorePurchases, acknowledgePurchase and getProductStatus return, after
\* calls that created the store context, what they return on an adapter on
\* which nothing was called before, the store answering the same.
C19_NoInitializeNeeded ==
    (/\ last # Idle /\ last.op # "initialize"
     /\ last.before.store_context # None) =>
        LastResult = FreshResult

\* a restore that succeeded on an adapter whose context an earlier call created
C19_Witness ==
    /\ LastIs("restore_purchases") /\ LastResult.ok
    /\ last.before.store_context # None
    /\ last.native.gd = "unasked"
    /\ Len(LastResult.value.purchases) = 1
    /\ LastResult = FreshResult

\* C20: getProducts and restorePurchases are all-or-nothing: when reading or
\* converting one native product or license fails, the operation returns an
\* error, never a list of the items converted before the failure.
C20_AllOrNothing ==
    /\ (LastIs("get_products") /\ last.native.query.kind = "ok"
            /\ \E i \in 1..Len(last.native.query.products) :
                   ~last.native.query.products[i].readable) =>
          ~LastResult.ok
    /\ (LastIs("restore_purchases") /\ last.native.app_license.kind = "ok"
            /\ \E i \in 1..Len(last.native.app_license.licenses) :
                   ~last.native.app_license.licenses[i].readable) =>
          ~LastResult.ok

\* a query whose second product could not be read, after a first that could
C20_Witness ==
    /\ LastIs("get_products") /\ last.native.query.kind = "ok"
    /\ Len(last.native.query.products) = 2
    /\ last.native.query.products[1].readable
    /\ ~last.native.query.products[2].readable
    /\ ~LastResult.ok

\* the product ids of a restore's purchases, in order
RestoredIds(result) ==
    [i \in 1..Len(result.value.purchases) |-> result.value.purchases[i].product_id]

\* C23: restorePurchases does not filter by the product type hint: it returns
\* one purchase for every active add-on license, the same product ids under
\* every hint for the same licenses; the hint changes derived fields only,
\* isAutoRenewing being true exactly under the hint "subs" for an active
\* license, and isAcknowledged is always true.
C23_HintDoesNotFilter ==
    (LastIs("restore_purchases") /\ LastResult.ok) =>
        LET licenses  == last.native.app_license.licenses
            held      == SelectSeq(licenses, LAMBDA l : l.IsActive)
            purchases == LastResult.value.purchases
        IN  /\ Len(purchases) = Len(held)
            /\ \A i \in 1..Len(purchases) :
                  /\ purchases[i].product_id = held[i].InAppOfferToken
                  /\ purchases[i].is_auto_renewing =
                         (last.request.product_type = "subs" /\ held[i].IsActive)
                  /\ purchases[i].is_acknowledged = TRUE
            /\ \A pt \in ProductTypes :
                  LET other == restore_purchases(last.before.store_context,
                                                 last.before.constructed, last.now, pt,
                                                 last.native).result
                  IN  other.ok /\ RestoredIds(other) = RestoredIds(LastResult)

\* a restore under the hint "inapp" over two active licenses, one of them
\* expiring as a subscription does: both returned, neither auto-renewing
C23_Witness ==
    /\ LastIs("restore_purchases") /\ LastResult.ok
    /\ last.request.product_type = "inapp"
    /\ Len(last.native.app_license.licenses) = 2
    /\ \A i \in 1..2 : last.native.app_license.licenses[i].IsActive
    /\ last.native.app_license.licenses[1].ExpirationDate.mag # <<>>
    /\ RestoredIds(LastResult) = <<"gem", "gem_1">>
    /\ \A i \in 1..2 : ~LastResult.value.purchases[i].is_auto_renewing

\* C21: in purchase the product lookup comes before the native purchase
\* request: when the lookup finds no product the call returns the error
\* "Product not found", when the lookup fails it returns an error, and in both
\* cases no native purchase request is issued for the call.
C21_LookupBeforeRequest ==
    LastIs("purchase") =>
        LET query == last.native.query
        IN  /\ (query.kind = "ok" /\ query.products = <<>>) =>
                  /\ LastResult = Err("Product not found")
                  /\ last.outcome.requested = "none"
            /\ (\/ query.kind \in {"err", "ext_err"}
                \/ /\ query.kind = "ok"
                   /\ \E i \in 1..Len(query.products) : ~query.products[i].readable) =>
                  /\ ~LastResult.ok
                  /\ last.outcome.requested = "none"

\* a purchase with an offer token whose lookup found nothing, on a cached
\* context
C21_Witness ==
    /\ LastIs("purchase")
    /\ last.before.store_context # None
    /\ last.request.options = Some([offer_token |-> Some("tok1")])
    /\ last.native.query.kind = "ok" /\ last.native.query.products = <<>>
    /\ LastResult = Err("Product not found")
    /\ last.outcome.requested = "none"

-----------------------------------------------------------------------------
(* Claims about the unit conversions (BillingSpec, TimeSpec).              *)

\* the letter the claim gives a unit code
ClaimedUnitLetter(unit) ==
    IF unit = 0 THEN "D" ELSE IF unit = 1 THEN "W" ELSE IF unit = 3 THEN "Y" ELSE "M"

\* C12: the encoded billingPeriod of a pair (count, unit) is "P" + count + U,
\* U being D, W, M, Y for the unit codes 0, 1, 2, 3 and M for every other
\* code; (1, 2) gives "P1M" and (3, 3) gives "P3Y".
C12_BillingPeriod ==
    billing_period_str # None =>
        /\ billing_period_str =
               Some("P" \o ToString(billing_period) \o ClaimedUnitLetter(billing_period_unit))
        /\ (billing_period = 1 /\ billing_period_unit = 2) => billing_period_str = Some("P1M")
        /\ (billing_period = 3 /\ billing_period_unit = 3) => billing_period_str = Some("P3Y")
        /\ (billing_period = 2 /\ billing_period_unit = 1) => billing_period_str = Some("P2W")
        /\ (billing_period = 7 /\ billing_period_unit = 0) => billing_period_str = Some("P7D")
        /\ (billing_period = 12 /\ billing_period_unit = 5) => billing_period_str = Some("P12M")

\* three years encoded
C12_Witness ==
    billing_period = 3 /\ billing_period_unit = 3 /\ billing_period_str = Some("P3Y")

\* 11,644,473,600 s
EpochOffset == <<3600, 4447, 116>>

\* C13: datetime_to_unix_millis(t) = ((t / 10,000,000) - 11,644,473,600) * 1000:
\* the result is 1000 * (s - 11,644,473,600) for the whole number of seconds s
\* with s * 10^7 <= t < (s + 1) * 10^7; 126227808000000000 gives 978307200000
\* and the ticks of 1970-01-01 give 0.
C13_UnixMillis ==
    unix_millis # None =>
        LET r == unix_millis[1]
            d == NatDivSmall(r.mag, 1000)
            s == I64Sub(I64Norm(r.neg, d.q), [neg |-> TRUE, mag |-> EpochOffset])
            t == windows_ticks.mag
        IN  /\ d.r = 0
            /\ ~s.neg
            /\ NatCmp(NatMulPow10(s.mag, 7), t) <= 0
            /\ NatCmp(t, NatMulPow10(NatAdd(s.mag, <<1>>), 7)) < 0
            /\ t = <<0, 0, 8080, 6227, 12>> => r = [neg |-> FALSE, mag |-> <<0, 720, 9783>>]
            /\ t = <<0, 0, 7360, 6444, 11>> => r = [neg |-> FALSE, mag |-> <<>>]
            /\ t = <<>> => r = [neg |-> TRUE, mag |-> <<0, 7360, 6444, 11>>]

\* the first instant of 2001 converted
C13_Witness ==
    /\ windows_ticks = [neg |-> FALSE, mag |-> <<0, 0, 8080, 6227, 12>>]
    /\ unix_millis = Some([neg |-> FALSE, mag |-> <<0, 720, 9783>>])

-----------------------------------------------------------------------------
(* Claims about the serde implementations (SerdeSpec).                     *)

\* C15: deserializing a PurchaseStateValue accepts exactly the integers 0, 1, 2
\* (purchased, canceled, pending) and rejects every other i32 with an "Invalid
\* purchase state" error; a serialized PurchaseStateValue deserializes to
\* itself.
C15_StateValueSerde ==
    (decoded # None /\ decoded.type = "PurchaseStateValue") =>
        /\ wire.kind = "i32" =>
              /\ decoded.result.ok <=> wire.value \in {0, 1, 2}
              /\ wire.value = 0 => decoded.result = Ok("Purchased")
              /\ wire.value = 1 => decoded.result = Ok("Canceled")
              /\ wire.value = 2 => decoded.result = Ok("Pending")
              /\ wire.value \notin {0, 1, 2} =>
                    decoded.result =
                        Err("Invalid purchase state: " \o ToString(wire.value))
        /\ serialized_from # None => decoded.result = Ok(serialized_from[1])

\* pending went over the wire as 2 and came back pending
C15_Witness ==
    /\ serialized_from = Some("Pending")
    /\ wire = [kind |-> "i32", value |-> 2]
    /\ decoded # None /\ decoded.type = "PurchaseStateValue"
    /\ decoded.result = Ok("Pending")

\* C16: the purchaseState of every Purchase decoded from a native payload and
\* returned to the host is 0, 1 or 2: a payload with another integer is a
\* decode failure.
C16_PurchaseStateChecked ==
    (decoded # None /\ decoded.type = "Purchase" /\ decoded.result.ok) =>
        decoded.result.value.purchase_state \in {0, 1, 2}

-----------------------------------------------------------------------------
(* Claims about the dispatcher (CmdSpec).                                  *)

\* C17: getPurchaseHistory on the adapter of a Windows build, which has no
\* native purchase history, always returns the not-supported error and never
\* a history list, whatever was called before.
C17_HistoryUnsupported ==
    (cmd_last # <<>> /\ cmd_last.command = "get_purchase_history"
        /\ active = Some(adapter_for("windows"))) =>
        /\ ~cmd_last.response.ok
        /\ cmd_last.response.error = "IAP is not supported on this platform"
        /\ cmd_last.plugin = None

\* the history asked of the desktop adapter
C17_Witness ==
    /\ cmd_last # <<>> /\ cmd_last.command = "get_purchase_history"
    /\ active = Some("desktop")
    /\ cmd_last.called = [adapter |-> "desktop", op |-> "get_purchase_history",
                          args |-> <<>>]
    /\ ~cmd_last.response.ok

\* the fields of a command's request, in the order of the method's parameters
RequestFields(command, payload) ==
    CASE command \in {"initialize", "get_purchase_history"} -> <<>>
      [] command = "get_products" -> <<payload.product_ids, payload.product_type>>
      [] command = "purchase" ->
             <<payload.product_id, payload.product_type, payload.offer_token>>
      [] command = "restore_purchases" -> <<payload.product_type>>
      [] command = "acknowledge_purchase" -> <<payload.purchase_token>>
      [] command = "get_product_status" -> <<payload.product_id, payload.product_type>>

-----------------------------------------------------------------------------
(* Claims about the shared store context (ConcSpec).                       *)

\* C7: under every interleaving the store context is successfully constructed
\* at most once, every caller that succeeds gets the one cached handle, and a
\* cached handle is never replaced or cleared.
C7_ConstructedOnce ==
    /\ [](/\ constructed <= 1
          /\ \A t \in Threads : \A i \in 1..Len(ret[t]) :
                ret[t][i].ok => store_context = Some(ret[t][i].value))
    /\ [][store_context # None => store_context' = store_context]_vars

\* both threads returned the handle of the single construction, one of them
\* having entered while the cache was still empty and found it filled
C7_Witness ==
    /\ constructed = 1
    /\ \A t \in Threads : Len(ret[t]) >= 1 /\ ret[t][1].ok
    /\ \E t \in Threads : ~after_creation[t] /\ ~is_none[t] /\ Len(ret[t]) = 1

C22_FailedAttemptRetried ==
    /\ [](/\ store_context = None <=> constructed = 0
          /\ \A t \in Threads :
                /\ pc[t] = "construct" => (store_context = None /\ lock[t] = "write")
                /\ pc[t] = "idle" => lock[t] = "none")
    /\ [][\A t \in Threads :
            (pc[t] = "construct" /\ pc'[t] = "idle") =>
                /\ ret'[t] = Append(ret[t], Err("Failed to get store context"))
                /\ store_context = None /\ store_context' = None
                /\ constructed' = constructed
                /\ \A u \in Threads : lock'[u] = "none"]_vars
    /\ [][\A t \in Threads :
            (pc[t] = "check" /\ pc'[t] # "check" /\ store_context = None) =>
                pc'[t] = "construct"]_vars
    /\ [][\A t \in Threads :
            (pc[t] = "construct" /\ pc'[t] = "clone") =>
                (store_context' = Some(constructed + 1) /\ constructed' = constructed + 1)]_vars

\* a thread whose first call failed and whose second call, finding the handle
\* still empty, constructed it and returned it
C22_Witness ==
    \E t \in Threads :
        /\ Len(ret[t]) = 2
        /\ ret[t][1] = Err("Failed to get store context")
        /\ is_none[t]
        /\ ret[t][2] = Ok(1)
        /\ store_context = Some(1) /\ constructed = 1

-----------------------------------------------------------------------------
(* Claims about the macOS signature gate (MacSpec).                        *)

\* C9: every macOS operation validates the code signature before its native
\* call: when the validation fails the operation returns an error and invokes
\* no Swift function, whatever earlier calls found; when it passes, the one
\* function invoked is the operation's own.
C9_SignatureGate ==
    mac_last # <<>> =>
        LET failed == mac_last.sig.copy_self # 0 \/ mac_last.sig.check_validity # 0
        IN  /\ failed => (~mac_last.result.ok /\ mac_last.invoked = <<>>)
            /\ ~failed => mac_last.invoked = <<mac_last.op>>

\* a call refused for its signature after an earlier call had passed the check
C9_Witness ==
    /\ mac_last # <<>>
    /\ mac_last.validated_before
    /\ mac_last.sig.check_validity # 0
    /\ ~mac_last.result.ok
    /\ mac_last.invoked = <<>>

-----------------------------------------------------------------------------
(* Claims about the price conversion (PriceSpec).                          *)

\* round(n / 10^k * 1_000_000) in exact decimal arithmetic, halves away from zero
RoundedMicros(t) ==
    LET n == DigitsNat(t, <<>>)
        k == FracDigits(t)
        x == NatAdd(NatMulPow10(NatMulSmall(n, 2), 6), NatMulPow10(<<1>>, k))
    IN  NatDivSmall(NatDivPow10(x, k, FALSE).q, 2).q

\* C10: priceAmountMicros = round(parseDecimal(strip_non_numeric(s)) * 1_000_000)
\* for every price string s, 0 when the stripped string does not parse.
C10_MicrosFormula ==
    price_amount_micros # None =>
        LET t == strip_non_numeric(formatted_base_price)
        IN  price_amount_micros =
                Some(IF ParsesAsF64(t) THEN RoundedMicros(t) ELSE <<>>)

=============================================================================
